---- MODULE Spec2Model ----
(***************************************************************************)
(* Knowledge-graph impact propagation, relationship explanation and       *)
(* hybrid re-ranking of the financial news intelligence system.           *)
(*                                                                         *)
(* The graph is the networkx DiGraph held by FinancialKnowledgeGraph:     *)
(*   nodes         the node set                                            *)
(*   attrs         node -> [type, full_name] (None for a missing key)     *)
(*   edges         the ordered pairs (u, v) in insertion order, which is  *)
(*                 the iteration order of successors and predecessors     *)
(*   relationship  edge -> the stored 'relationship' attribute            *)
(* add_company and add_relationship are the mutating actions.  The read    *)
(* methods are pure in the graph: call is the request a client makes      *)
(* (drawn in Init), ret what the method returned for it on the current    *)
(* graph, or that it raised.  qry is one QueryProcessingAgent.process call: *)
(* its position, its inputs and the locals it has computed so far.         *)
(* Numbers that are floats in the program are exact rationals <<n, d>>.   *)
(* The news pipeline (ingestion, deduplication, storage and the workflow  *)
(* of the orchestrator) is modelled in the section on the agents.         *)
(***************************************************************************)
EXTENDS Integers, Sequences, FiniteSets, TLC

VARIABLES nodes, attrs, edges, relationship, nOps, call, ret, qry,
          ingestion_agent, deduplication_agent, storage_agent, collection,
          state, log

graphVars == <<nodes, attrs, edges, relationship>>
agentVars == <<ingestion_agent, deduplication_agent, storage_agent, collection, state, log>>
vars == <<nodes, attrs, edges, relationship, nOps, call, ret, qry, agentVars>>

\* ---------------------------------------------------------------- bounds
\* number of add_company / add_relationship calls in one behaviour
MaxOps == 2
\* largest max_depth handed to get_impacted_entities
MaxDepth == 3
\* most articles the vector store holds when a query is processed
MaxStored == 2

\* ------------------------------------------------------------- rationals
Rat(n, d) == <<n, d>>
RatEq(a, b) == a[1] * b[2] = b[1] * a[2]
RatLt(a, b) == a[1] * b[2] < b[1] * a[2]
RatLe(a, b) == a[1] * b[2] <= b[1] * a[2]
RECURSIVE Gcd(_, _)
Gcd(a, b) == IF b = 0 THEN a ELSE Gcd(b, a % b)
\* lowest terms, so that numerators and denominators stay small
Reduce(a) == LET g == Gcd(a[1], a[2]) IN <<a[1] \div g, a[2] \div g>>
RatAdd(a, b) == Reduce(<<a[1] * b[2] + b[1] * a[2], a[2] * b[2]>>)
RatMul(a, b) == Reduce(<<a[1] * b[1], a[2] * b[2]>>)
Zero == Rat(0, 1)
One == Rat(1, 1)

\* ------------------------------------------------------------ seed graph
None == "None"

Regulators == <<"RBI", "SEBI">>
RegulatorNames == [RBI |-> "Reserve Bank of India", SEBI |-> "Securities and Exchange Board"]

sectors == <<"Banking", "IT", "Pharmaceuticals", "Auto", "Steel",
             "Real Estate", "FMCG", "Telecom", "Energy", "Cement">>

\* symbol, display name, sector: the companies dict in insertion order
companies == << <<"HDFCBANK", "HDFC Bank", "Banking">>,
                <<"ICICIBANK", "ICICI Bank", "Banking">>,
                <<"AXISBANK", "Axis Bank", "Banking">>,
                <<"TCS", "Tata Consultancy Services", "IT">>,
                <<"INFY", "Infosys", "IT">>,
                <<"RELIANCE", "Reliance Industries", "Energy">>,
                <<"TATAMOTORS", "Tata Motors", "Auto">>,
                <<"MARUTI", "Maruti Suzuki", "Auto">> >>

\* the add_edge calls that follow the company loop, in program order
SeedRelations == << <<"RBI", "Banking", "REGULATES">>,
                    <<"SEBI", "Banking", "OVERSEES">>,
                    <<"SEBI", "IT", "OVERSEES">>,
                    <<"Auto", "Steel", "DEPENDS_ON">>,
                    <<"Real Estate", "Cement", "DEPENDS_ON">>,
                    <<"Real Estate", "Steel", "DEPENDS_ON">>,
                    <<"RBI", "Interest Rates", "CONTROLS">>,
                    <<"Interest Rates", "Banking", "AFFECTS">>,
                    <<"Interest Rates", "Real Estate", "AFFECTS">> >>

Range(s) == {s[i] : i \in DOMAIN s}

\* all add_edge calls of _initialize_base_graph, in program order
SeedEdgeCalls ==
    [i \in 1..Len(companies) |-> <<companies[i][1], companies[i][3], "PART_OF">>]
        \o SeedRelations

\* nodes given attributes by add_node
SeedTyped == Range(Regulators) \cup Range(sectors) \cup {c[1] : c \in Range(companies)}

SeedNodes == SeedTyped \cup {e[1] : e \in Range(SeedEdgeCalls)}
                       \cup {e[2] : e \in Range(SeedEdgeCalls)}

SeedAttrs ==
    [n \in SeedNodes |->
        IF n \in Range(Regulators) THEN [type |-> "regulator", full_name |-> RegulatorNames[n]]
        ELSE IF n \in Range(sectors) THEN [type |-> "sector", full_name |-> None]
        ELSE IF \E c \in Range(companies) : c[1] = n
             THEN [type |-> "company",
                   full_name |-> (CHOOSE c \in Range(companies) : c[1] = n)[2]]
        ELSE [type |-> None, full_name |-> None]]

SeedEdges == [i \in 1..Len(SeedEdgeCalls) |-> <<SeedEdgeCalls[i][1], SeedEdgeCalls[i][2]>>]

SeedRelationship ==
    [e \in Range(SeedEdges) |->
        (CHOOSE c \in Range(SeedEdgeCalls) : <<c[1], c[2]>> = e)[3]]

\* ------------------------------------------------------- argument domains
\* ids handed to add_relationship as source and as target; NEWCO is not a
\* node of the seed graph
SourceIds == {"RBI", "SEBI", "Banking", "NEWCO"}
TargetIds == {"RBI", "Interest Rates", "Banking", "NEWCO"}
\* ids handed to get_impacted_entities; GHOST is never a node
QueryIds == {"RBI", "Banking", "NEWCO", "GHOST"}
\* ids handed to explain_relationship as source and as target
ExplainSources == {"RBI", "SEBI", "Banking", "NEWCO", "GHOST"}
ExplainTargets == {"RBI", "Banking", "HDFCBANK", "Cement", "NEWCO", "GHOST"}
\* ids handed to get_supply_chain_impact and get_companies_in_sector
SectorIds == {"Banking", "Steel", "Real Estate", "RBI", "NEWCO", "GHOST"}
Kinds == {"DEPENDS_ON"}
NewName == "New Co"

\* ret before the call is made, and after the graph has changed under it
Pending == [status |-> "pending", value |-> None]
Returned(v) == [status |-> "returned", value |-> v]
Raised == [status |-> "raised", value |-> None]

\* ----------------------------------------------------------- graph reads
has_node(n) == n \in nodes
has_edge(u, v) == <<u, v>> \in DOMAIN relationship

\* DiGraph.successors / predecessors: neighbours in edge insertion order
RECURSIVE SuccessorsIn(_, _)
SuccessorsIn(es, n) ==
    IF es = <<>> THEN <<>>
    ELSE (IF Head(es)[1] = n THEN <<Head(es)[2]>> ELSE <<>>) \o SuccessorsIn(Tail(es), n)

RECURSIVE PredecessorsIn(_, _)
PredecessorsIn(es, n) ==
    IF es = <<>> THEN <<>>
    ELSE (IF Head(es)[2] = n THEN <<Head(es)[1]>> ELSE <<>>) \o PredecessorsIn(Tail(es), n)

successors(n) == SuccessorsIn(edges, n)

predecessors(n) == PredecessorsIn(edges, n)

\* ------------------------------------------------------------- mutations
Put(f, k, v) == [x \in DOMAIN f \cup {k} |-> IF x = k THEN v ELSE f[x]]

NoAttrs == [type |-> None, full_name |-> None]

\* DiGraph.add_edge(u, v, relationship=kind) applied to the graph <<N, A, E, R>>
AddEdgeFirstWins(G, u, v, kind) ==
    LET A1 == IF u \in G[1] THEN G[2] ELSE Put(G[2], u, NoAttrs)
        A2 == IF v \in G[1] \cup {u} THEN A1 ELSE Put(A1, v, NoAttrs)
    IN << G[1] \cup {u, v},
          A2,
          IF <<u, v>> \in Range(G[3]) THEN G[3] ELSE Append(G[3], <<u, v>>),
          IF <<u, v>> \in DOMAIN G[4] THEN G[4] ELSE Put(G[4], <<u, v>>, kind) >>
AddEdge(G, u, v, kind) ==
    LET A1 == IF u \in G[1] THEN G[2] ELSE Put(G[2], u, NoAttrs)
        A2 == IF v \in G[1] \cup {u} THEN A1 ELSE Put(A1, v, NoAttrs)
    IN << G[1] \cup {u, v},
          A2,
          IF <<u, v>> \in Range(G[3]) THEN G[3] ELSE Append(G[3], <<u, v>>),
          Put(G[4], <<u, v>>, kind) >>

\* DiGraph.add_node(n, type=t, full_name=name)
RECURSIVE WithoutNode(_, _)
WithoutNode(es, n) ==
    IF es = <<>> THEN <<>>
    ELSE (IF n \in {Head(es)[1], Head(es)[2]} THEN <<>> ELSE <<Head(es)>>)
            \o WithoutNode(Tail(es), n)
AddNodeAnew(G, n, t, name) ==
    << G[1] \cup {n}, Put(G[2], n, [type |-> t, full_name |-> name]),
       WithoutNode(G[3], n),
       [e \in Range(WithoutNode(G[3], n)) |-> G[4][e]] >>
AddNode(G, n, t, name) ==
    << G[1] \cup {n}, Put(G[2], n, [type |-> t, full_name |-> name]), G[3], G[4] >>

Graph == <<nodes, attrs, edges, relationship>>

add_companyResult(symbol, name, sector) ==
    LET G1 == AddNode(Graph, symbol, "company", name)
    IN IF sector \in G1[1] THEN AddEdge(G1, symbol, sector, "PART_OF") ELSE G1

add_relationshipResult(source, target, kind) == AddEdge(Graph, source, target, kind)

\* ------------------------------------------------ get_impacted_entities
SuccSet(S) == {e[2] : e \in {x \in Range(edges) : x[1] \in S}}
PredSet(S) == {e[1] : e \in {x \in Range(edges) : x[2] \in S}}

RECURSIVE ReachForward(_, _)
ReachForward(frontier, seen) ==
    IF frontier = {} THEN seen
    ELSE LET nxt == SuccSet(frontier) \ seen
         IN ReachForward(nxt, seen \cup nxt)

RECURSIVE ReachBackward(_, _)
ReachBackward(frontier, seen) ==
    IF frontier = {} THEN seen
    ELSE LET nxt == PredSet(frontier) \ seen
         IN ReachBackward(nxt, seen \cup nxt)

\* nx.descendants / nx.ancestors: everything reachable, the node itself excluded
descendants(n) == ReachForward({n}, {n}) \ {n}
ancestors(n) == ReachBackward({n}, {n}) \ {n}

\* nx.shortest_path_length(G, s, t) by breadth-first levels; t is reachable
\* from s wherever the program calls it
RECURSIVE BfsLevel(_, _, _, _)
BfsLevel(frontier, seen, t, d) ==
    IF t \in frontier THEN d
    ELSE IF frontier = {} THEN -1
    ELSE LET nxt == SuccSet(frontier) \ seen
         IN BfsLevel(nxt, seen \cup nxt, t, d + 1)

shortest_path_length(s, t) == BfsLevel({s}, {s}, t, 0)

\* path_length <= max_depth
WithinDepthOffByOne(path_length, max_depth) == path_length - 1 <= max_depth
WithinDepth(path_length, max_depth) == path_length <= max_depth

\* confidence = 1.0 / (path_length + 1)
ForwardConfidenceNoDecay(path_length) == Rat(1, 1)
ForwardConfidence(path_length) == Rat(1, path_length + 1)

\* confidence = 0.7 / (path_length + 1)
BackwardConfidence(path_length) == Rat(7, 10 * (path_length + 1))

EmptyMap == [x \in {} |-> Zero]

\* the two loops: the second assigns after the first, so it wins on a shared key
ImpactedMapForwardKept(entity, max_depth) ==
    LET fwdKeys == {t \in descendants(entity) :
                       WithinDepth(shortest_path_length(entity, t), max_depth)}
        bwdKeys == {s \in ancestors(entity) :
                       WithinDepth(shortest_path_length(s, entity), max_depth)}
    IN [n \in fwdKeys \cup bwdKeys |->
           IF n \in fwdKeys
           THEN ForwardConfidence(shortest_path_length(entity, n))
           ELSE BackwardConfidence(shortest_path_length(n, entity))]
ImpactedMap(entity, max_depth) ==
    LET fwdKeys == {t \in descendants(entity) :
                       WithinDepth(shortest_path_length(entity, t), max_depth)}
        bwdKeys == {s \in ancestors(entity) :
                       WithinDepth(shortest_path_length(s, entity), max_depth)}
    IN [n \in fwdKeys \cup bwdKeys |->
           IF n \in bwdKeys
           THEN BackwardConfidence(shortest_path_length(n, entity))
           ELSE ForwardConfidence(shortest_path_length(entity, n))]

\* without the membership test nx.descendants raises NetworkXError
get_impacted_entitiesUnguarded(entity, max_depth) ==
    IF entity \notin nodes THEN Raised
    ELSE Returned(ImpactedMap(entity, max_depth))
get_impacted_entities(entity, max_depth) ==
    IF entity \notin nodes THEN Returned(EmptyMap)
    ELSE Returned(ImpactedMap(entity, max_depth))

\* ---------------------------------------------- get_companies_in_sector
RECURSIVE SelectCompanies(_)
SelectCompanies(ns) ==
    IF ns = <<>> THEN <<>>
    ELSE (IF attrs[Head(ns)].type = "company" THEN <<Head(ns)>> ELSE <<>>)
            \o SelectCompanies(Tail(ns))

get_companies_in_sector(sector) ==
    IF sector \notin nodes THEN Returned(<<>>)
    ELSE Returned(SelectCompanies(predecessors(sector)))

\* ------------------------------------------------- explain_relationship
\* cutoff=3
ExplainCutoff == 3
\* paths[:3]
ExplainTopMore == ExplainCutoff + 1
ExplainTop == 3

\* the neighbours the path search steps to from n
NextHopsEitherWay(n) == successors(n) \o predecessors(n)
NextHops(n) == successors(n)

\* depth-first enumeration of the simple paths that extend path to target,
\* children taken in adjacency order; a path is not extended past the target
\* nor past cutoff edges
RECURSIVE SimplePathsOver(_, _, _, _)
SimplePathsOver(path, children, target, cutoff) ==
    IF children = <<>> THEN <<>>
    ELSE LET child == Head(children)
             here == IF child \in Range(path) THEN <<>>
                     ELSE IF child = target THEN <<Append(path, child)>>
                     ELSE IF Len(path) < cutoff
                          THEN SimplePathsOver(Append(path, child), NextHops(child),
                                               target, cutoff)
                          ELSE <<>>
         IN here \o SimplePathsOver(path, Tail(children), target, cutoff)

\* nx.all_simple_paths(G, source, target, cutoff) for nodes of the graph.
\* For source = target networkx up to 3.1 yields nothing and later releases
\* yield the one-node path: trivial says which release is installed.
all_simple_paths(source, target, cutoff, trivial) ==
    IF source = target
    THEN (IF trivial THEN << <<source>> >> ELSE <<>>)
    ELSE SimplePathsOver(<<source>>, NextHops(source), target, cutoff)

FirstN(s, n) == SubSeq(s, 1, IF Len(s) < n THEN Len(s) ELSE n)

\* one explanation: the segments <<X, rel, Y>> that " -> ".join strings together
Explanation(path) ==
    [i \in 1..(Len(path) - 1) |->
        <<path[i], relationship[<<path[i], path[i + 1]>>], path[i + 1]>>]

\* graph.edges[u, v] raises KeyError when (u, v) is no edge
PathHasEdges(path) == \A i \in 1..(Len(path) - 1) : has_edge(path[i], path[i + 1])

explain_relationship(source, target, trivial) ==
    IF source \notin nodes \/ target \notin nodes THEN Returned(<<>>)
    ELSE LET paths == FirstN(all_simple_paths(source, target, ExplainCutoff, trivial),
                             ExplainTop)
         IN IF \E i \in DOMAIN paths : ~PathHasEdges(paths[i]) THEN Raised
            ELSE Returned([i \in DOMAIN paths |-> Explanation(paths[i])])

\* ---------------------------------------------- get_supply_chain_impact
\* first loop: every node with a DEPENDS_ON edge into sector gets 0.7;
\* graph.successors(sector) raises NetworkXError for an id that is no node;
\* second loop: every DEPENDS_ON successor gets 0.6, assigned last
\* impacts[node] = 0.7
DownstreamConfidence == Rat(7, 10)
\* impacts[node] = 0.6
UpstreamConfidenceBlended == Rat(65, 100)
UpstreamConfidence == Rat(6, 10)

\* rel == "DEPENDS_ON"
IsAnyKind(rel) == rel = rel
IsDependsOn(rel) == rel = "DEPENDS_ON"

get_supply_chain_impact(sector) ==
    LET down == {n \in nodes : has_edge(n, sector)
                                 /\ IsDependsOn(relationship[<<n, sector>>])}
    IN IF sector \notin nodes THEN Raised
       ELSE LET up == {n \in Range(successors(sector)) :
                          IsDependsOn(relationship[<<sector, n>>])}
            IN Returned([n \in down \cup up |->
                            IF n \in up THEN UpstreamConfidence
                            ELSE DownstreamConfidence])

\* ------------------------------------------------------ query processing
\* the entities dict of EntityExtractionAgent.process, keys in insertion order
EntityKeys == <<"companies", "sectors", "regulators", "people", "locations", "events">>

Entities(c, s, r, e) ==
    [companies |-> c, sectors |-> s, regulators |-> r,
     people |-> <<>>, locations |-> <<>>, events |-> e]

\* for ent_list in entities.values(): flat.extend(ent_list)
RECURSIVE FlattenKeys(_, _)
FlattenKeys(ents, keys) ==
    IF keys = <<>> THEN <<>> ELSE ents[Head(keys)] \o FlattenKeys(ents, Tail(keys))

Flatten(ents) == FlattenKeys(ents, EntityKeys)

\* what an article's metadata holds under 'entities': the json of the dict the
\* extraction agent attached, or of a plain list (the default is [])
DictEntities(d) == [is_dict |-> TRUE, dict |-> d, list |-> <<>>]
ListEntities(l) == [is_dict |-> FALSE, dict |-> Entities(<<>>, <<>>, <<>>, <<>>), list |-> l]

\* set(result_entities): iterating a dict gives its keys
IterSet(e) == IF e.is_dict THEN Range(EntityKeys) ELSE Range(e.list)

\* all_result_entities: the dict's value lists joined, or the list itself
AllResultEntities(e) == IF e.is_dict THEN Flatten(e.dict) ELSE e.list

\* for company in entities.get('companies', []): ... expanded.update(...)
RECURSIVE ExpandCompanies(_, _)
ExpandCompanies(expanded, cs) ==
    IF cs = <<>> THEN expanded
    ELSE ExpandCompanies(
            IF Head(cs) \in nodes
            THEN expanded \cup DOMAIN get_impacted_entities(Head(cs), 2).value
            ELSE expanded,
            Tail(cs))

\* for sector in entities.get('sectors', []): the companies in the sector,
\* then the entities impacted at depth 1
ExpandSectorsFirstOnly(expanded, ss) ==
    IF ss = <<>> \/ Head(ss) \notin nodes THEN expanded
    ELSE expanded \cup Range(get_companies_in_sector(Head(ss)).value)
                  \cup DOMAIN get_impacted_entities(Head(ss), 1).value

RECURSIVE ExpandSectors(_, _)
ExpandSectors(expanded, ss) ==
    IF ss = <<>> THEN expanded
    ELSE ExpandSectors(
            IF Head(ss) \in nodes
            THEN expanded \cup Range(get_companies_in_sector(Head(ss)).value)
                          \cup DOMAIN get_impacted_entities(Head(ss), 1).value
            ELSE expanded,
            Tail(ss))

\* for regulator in entities.get('regulators', []): ...
RECURSIVE ExpandRegulators(_, _)
ExpandRegulators(expanded, rs) ==
    IF rs = <<>> THEN expanded
    ELSE ExpandRegulators(
            IF Head(rs) \in nodes
            THEN expanded \cup DOMAIN get_impacted_entities(Head(rs), 2).value
            ELSE expanded,
            Tail(rs))

\* _expand_context: expanded is a set, returned as list(expanded), whose order
\* carries nothing
_expand_contextDirectOnly(entities) ==
    Range(entities.companies) \cup Range(entities.sectors) \cup Range(entities.regulators)
_expand_context(entities) ==
    LET original == Range(entities.companies) \cup Range(entities.sectors)
                        \cup Range(entities.regulators)
    IN ExpandRegulators(
          ExpandSectors(ExpandCompanies(original, entities.companies), entities.sectors),
          entities.regulators)

\* list.sort(key=..., reverse=True): descending, equal keys keep their order
RECURSIVE InsertDescBeforeEqual(_, _)
InsertDescBeforeEqual(sorted, p) ==
    IF sorted = <<>> THEN <<p>>
    ELSE IF RatLe(Head(sorted)[1], p[1]) THEN <<p>> \o sorted
    ELSE <<Head(sorted)>> \o InsertDescBeforeEqual(Tail(sorted), p)

RECURSIVE InsertDesc(_, _)
InsertDesc(sorted, p) ==
    IF sorted = <<>> THEN <<p>>
    ELSE IF RatLt(Head(sorted)[1], p[1]) THEN <<p>> \o sorted
    ELSE <<Head(sorted)>> \o InsertDesc(Tail(sorted), p)

RECURSIVE SortPairsDesc(_, _)
SortPairsDesc(acc, rest) ==
    IF rest = <<>> THEN acc
    ELSE SortPairsDesc(InsertDesc(acc, Head(rest)), Tail(rest))

\* items sorted by keys[i], the key of items[i]
SortDescBy(items, keys) ==
    LET sorted == SortPairsDesc(<<>>, [i \in DOMAIN items |-> <<keys[i], items[i]>>])
    IN [i \in DOMAIN sorted |-> sorted[i][2]]

Max(a, b) == IF a >= b THEN a ELSE b

\* VectorStore.semantic_search: the n_results nearest stored articles, nearest
\* first; no combined_score yet
semantic_search(store, top_k) ==
    LET hits == FirstN(store, top_k)
    IN [i \in DOMAIN hits |->
           [id |-> hits[i].id, similarity |-> hits[i].similarity,
            entities |-> hits[i].entities,
            has_combined |-> FALSE, combined_score |-> Zero]]

\* 0.7 * similarity + 0.3 * entity_score
CombinedScore(result, entities) ==
    LET overlap == Cardinality(entities \cap IterSet(result.entities))
        entity_score == Rat(overlap, Max(Cardinality(entities), 1))
    IN RatAdd(RatMul(Rat(7, 10), result.similarity), RatMul(Rat(3, 10), entity_score))

\* VectorStore.hybrid_search(query, entities, top_k)
hybrid_search(store, entities, top_k) ==
    LET semantic_results == semantic_search(store, top_k * 2)
        scored == [i \in DOMAIN semantic_results |->
                      [semantic_results[i] EXCEPT
                          !.has_combined = TRUE,
                          !.combined_score = CombinedScore(semantic_results[i], entities)]]
    IN IF entities # {}
       THEN FirstN(SortDescBy(scored, [i \in DOMAIN scored |-> scored[i].combined_score]),
                   top_k)
       ELSE FirstN(semantic_results, top_k)

\* result.get('combined_score', result.get('similarity', 0))
SemanticComponent(result) ==
    IF result.has_combined THEN result.combined_score ELSE result.similarity

\* overlap / max(len(query_ent_flat), 1)
EntityMatch(result, query_entities) ==
    LET query_ent_flat == Flatten(query_entities)
        all_result_entities == AllResultEntities(result.entities)
        overlap == Cardinality(Range(query_ent_flat) \cap Range(all_result_entities))
    IN Rat(overlap, Max(Len(query_ent_flat), 1))

\* 0.5 * semantic + 0.3 * entity_match + 0.2 * recency
FinalScoreSwappedWeights(semantic, entity_match, recency) ==
    RatAdd(RatAdd(RatMul(Rat(3, 10), semantic), RatMul(Rat(5, 10), entity_match)),
           RatMul(Rat(2, 10), recency))
FinalScore(semantic, entity_match, recency) ==
    RatAdd(RatAdd(RatMul(Rat(5, 10), semantic), RatMul(Rat(3, 10), entity_match)),
           RatMul(Rat(2, 10), recency))

Rescored(result, query_entities) ==
    LET score_components ==
            [semantic |-> SemanticComponent(result),
             entity_match |-> EntityMatch(result, query_entities),
             recency |-> Zero,
             sentiment_relevance |-> Zero]
    IN [id |-> result.id, similarity |-> result.similarity,
        entities |-> result.entities,
        has_combined |-> result.has_combined,
        combined_score |-> result.combined_score,
        final_score |-> FinalScore(score_components.semantic,
                                   score_components.entity_match,
                                   score_components.recency),
        score_breakdown |-> score_components]

\* QueryProcessingAgent._rerank_results
_rerank_results(results, query_entities) ==
    LET rescored == [i \in DOMAIN results |-> Rescored(results[i], query_entities)]
    IN SortDescBy(rescored, [i \in DOMAIN rescored |-> rescored[i].final_score])

\* ------------------------------------------------- the agents as built
\* NewsIngestionAgent.__init__: api_key and fernet say whether NEWSAPI_KEY and
\* ENCRYPT_KEY are set
NewsIngestionAgent(api_key, fernet) ==
    [api_key |-> api_key, fernet |-> fernet, cache |-> <<>>]

\* DeduplicationAgent.__init__
DeduplicationAgent == [similarity_threshold |-> Rat(9, 10), duplicate_groups |-> <<>>]

\* StorageAgent.__init__
StorageAgent == [stored_count |-> 0]

\* no workflow run
NoRun == [node |-> "none"]

FreshAgents ==
    /\ ingestion_agent = NewsIngestionAgent(FALSE, FALSE)
    /\ deduplication_agent = DeduplicationAgent
    /\ storage_agent = StorageAgent
    /\ collection = <<>>
    /\ state = NoRun
    /\ log = <<>>

\* -------------------------------------------------------------- actions
SeedGraph ==
    /\ nodes = SeedNodes
    /\ attrs = SeedAttrs
    /\ edges = SeedEdges
    /\ relationship = SeedRelationship
    /\ nOps = 0
    /\ ret = Pending

NoCall == [op |-> "none", args |-> <<>>]

\* no query is being processed
QIdle == [pc |-> "idle"]

ImpactCalls ==
    {[op |-> "get_impacted_entities", args |-> <<entity, max_depth>>] :
        entity \in QueryIds, max_depth \in 0..MaxDepth}

Init == SeedGraph /\ FreshAgents /\ call \in ImpactCalls /\ qry = QIdle

\* what add_company does to the graph
add_companyGraph ==
    /\ nOps < MaxOps
    /\ \E symbol \in {"NEWCO", "RBI"}, sector \in {"Banking", "NEWCO", "GHOST"} :
          LET G == add_companyResult(symbol, NewName, sector)
          IN /\ nodes' = G[1]
             /\ attrs' = G[2]
             /\ edges' = G[3]
             /\ relationship' = G[4]
    /\ nOps' = nOps + 1
    /\ UNCHANGED <<call, qry, agentVars>>

\* add_company; a result returned before it no longer describes the graph
add_company == add_companyGraph /\ ret' = Pending

\* what add_relationship does to the graph
add_relationshipGraph(source, target, kind) ==
    /\ nOps < MaxOps
    /\ LET G == add_relationshipResult(source, target, kind)
       IN /\ nodes' = G[1]
          /\ attrs' = G[2]
          /\ edges' = G[3]
          /\ relationship' = G[4]
    /\ nOps' = nOps + 1
    /\ UNCHANGED <<call, qry, agentVars>>

add_relationshipCall(source, target, kind) ==
    add_relationshipGraph(source, target, kind) /\ ret' = Pending

add_relationship ==
    \E source \in SourceIds, target \in TargetIds, kind \in Kinds :
        add_relationshipCall(source, target, kind)

Call_get_impacted_entities ==
    /\ call.op = "get_impacted_entities"
    /\ ret' = get_impacted_entities(call.args[1], call.args[2])
    /\ UNCHANGED <<graphVars, nOps, call, qry, agentVars>>

Next == add_company \/ add_relationship \/ Call_get_impacted_entities

Spec == Init /\ [][Next]_vars

\* the same calls with the caller holding on to the result it got before the
\* graph changed
Held ==
    IF ret.status \in {"returned", "held"}
    THEN [status |-> "held", value |-> ret.value]
    ELSE Pending

add_companyHeld == add_companyGraph /\ ret' = Held

add_relationshipHeld ==
    \E source \in SourceIds, target \in TargetIds, kind \in Kinds :
        add_relationshipGraph(source, target, kind) /\ ret' = Held

NextGrowth == add_companyHeld \/ add_relationshipHeld \/ Call_get_impacted_entities

SpecGrowth == Init /\ [][NextGrowth]_vars

\* the lookups: explain_relationship, get_supply_chain_impact,
\* get_companies_in_sector
LookupCalls ==
    {[op |-> "explain_relationship", args |-> <<source, target>>] :
        source \in ExplainSources, target \in ExplainTargets}
    \cup {[op |-> "get_supply_chain_impact", args |-> <<sector>>] : sector \in SectorIds}
    \cup {[op |-> "get_companies_in_sector", args |-> <<sector>>] : sector \in SectorIds}

InitLookup == SeedGraph /\ FreshAgents /\ call \in LookupCalls /\ qry = QIdle

Call_explain_relationship ==
    /\ call.op = "explain_relationship"
    /\ \E trivial \in BOOLEAN :
          ret' = explain_relationship(call.args[1], call.args[2], trivial)
    /\ UNCHANGED <<graphVars, nOps, call, qry, agentVars>>

Call_get_supply_chain_impact ==
    /\ call.op = "get_supply_chain_impact"
    /\ ret' = get_supply_chain_impact(call.args[1])
    /\ UNCHANGED <<graphVars, nOps, call, qry, agentVars>>

Call_get_companies_in_sector ==
    /\ call.op = "get_companies_in_sector"
    /\ ret' = get_companies_in_sector(call.args[1])
    /\ UNCHANGED <<graphVars, nOps, call, qry, agentVars>>

NextLookup ==
    \/ add_company
    \/ add_relationship
    \/ Call_explain_relationship
    \/ Call_get_supply_chain_impact
    \/ Call_get_companies_in_sector

SpecLookup == InitLookup /\ [][NextLookup]_vars

\* _expand_context called on its own, between changes of the graph
ExpandCalls ==
    {[op |-> "_expand_context", args |-> <<Entities(c, s, r, <<>>)>>] :
        c \in {<<>>, <<"NEWCO">>},
        s \in {<<>>, <<"Banking">>, <<"NEWCO">>, <<"Banking", "IT">>, <<"IT", "Banking">>,
               <<"GHOST", "Banking", "Banking">>},
        r \in {<<>>, <<"RBI">>}}

InitExpand == SeedGraph /\ FreshAgents /\ call \in ExpandCalls /\ qry = QIdle

Call_expand_context ==
    /\ call.op = "_expand_context"
    /\ ret' = Returned(_expand_context(call.args[1]))
    /\ UNCHANGED <<graphVars, nOps, call, qry, agentVars>>

NextExpand == add_company \/ add_relationship \/ Call_expand_context

SpecExpand == InitExpand /\ [][NextExpand]_vars

\* ------------------------------------------------------- impact analysis
\* one impact record; the sentiment label is copied from the analyzer
\* unchanged and is left out
Impact(entity, confidence, why, of, to) ==
    [entity |-> entity, type |-> "company", confidence |-> confidence,
     reasoning |-> [why |-> why, of |-> of, to |-> to]]

RECURSIVE ConcatAll(_)
ConcatAll(lists) ==
    IF lists = <<>> THEN <<>> ELSE Head(lists) \o ConcatAll(Tail(lists))

\* the items of a dict or set in one of the orders an iteration may give; the
\* order decides only where records stand in the lists, which are kept as sets
RECURSIVE Iteration(_)
Iteration(S) ==
    IF S = {} THEN <<>>
    ELSE LET x == CHOOSE y \in S : TRUE IN <<x>> \o Iteration(S \ {x})

\* 1. direct company impacts
DirectImpacts(cs) ==
    ConcatAll([i \in DOMAIN cs |->
        IF cs[i] \in nodes
        THEN <<Impact(cs[i], Rat(1, 1), "Direct mention in article", None, None)>>
        ELSE <<>>])

\* 2. sector-wide impacts
SectorImpacts(ss) ==
    ConcatAll([i \in DOMAIN ss |->
        IF ss[i] \in nodes
        THEN LET sector_companies == get_companies_in_sector(ss[i]).value
             IN [j \in DOMAIN sector_companies |->
                    Impact(sector_companies[j], Rat(75, 100), "Part of", ss[i], None)]
        ELSE <<>>])

\* confidence * 0.65
RegulatoryConfidenceUnscaled(confidence) == confidence
RegulatoryConfidence(confidence) == RatMul(confidence, Rat(65, 100))

\* 3. regulatory impacts, appended to impacts['sector']
RegulatoryImpacts(rs) ==
    ConcatAll([i \in DOMAIN rs |->
        IF rs[i] \in nodes
        THEN LET impacted_entities == get_impacted_entities(rs[i], 2).value
                 hit == Iteration({n \in DOMAIN impacted_entities :
                                      attrs[n].type = "company"})
             IN [j \in DOMAIN hit |->
                    Impact(hit[j], RegulatoryConfidence(impacted_entities[hit[j]]),
                           "Regulated by", rs[i], None)]
        ELSE <<>>])

\* 4. supply chain impacts of one sector whose lookup returned
SupplyChainOf(sector) ==
    LET supply_impacts == get_supply_chain_impact(sector).value
        impacted == Iteration(DOMAIN supply_impacts)
    IN ConcatAll([k \in DOMAIN impacted |->
          LET companies_list == get_companies_in_sector(impacted[k]).value
          IN [j \in DOMAIN companies_list |->
                 Impact(companies_list[j],
                        RatMul(supply_impacts[impacted[k]], Rat(5, 10)),
                        "Supply chain link", sector, impacted[k])]])

SupplyChainImpacts(ss) == ConcatAll([i \in DOMAIN ss |-> SupplyChainOf(ss[i])])

\* if impact['confidence'] > seen[entity]['confidence']
SupersedesAlways(impact, kept) == TRUE
Supersedes(impact, kept) == RatLt(kept.confidence, impact.confidence)

\* the first loop of _consolidate_impacts
RECURSIVE Seen(_, _)
Seen(seen, impacts) ==
    IF impacts = <<>> THEN seen
    ELSE LET impact == Head(impacts)
         IN Seen(IF impact.entity \notin DOMAIN seen
                    THEN Put(seen, impact.entity, impact)
                 ELSE IF Supersedes(impact, seen[impact.entity])
                    THEN Put(seen, impact.entity, impact)
                 ELSE seen,
                 Tail(impacts))

RECURSIVE SumConfidence(_, _)
SumConfidence(seen, S) ==
    IF S = {} THEN Zero
    ELSE LET x == CHOOSE y \in S : TRUE
         IN RatAdd(seen[x].confidence, SumConfidence(seen, S \ {x}))

NoImpacts == [direct |-> {}, sector |-> {}, supply_chain |-> {}, overall_confidence |-> Zero]

\* ImpactAnalysisAgent._consolidate_impacts
_consolidate_impacts(direct, sector, supply_chain) ==
    LET seen == Seen([x \in {} |-> NoImpacts], direct \o sector \o supply_chain)
        all == {seen[e] : e \in DOMAIN seen}
        n == Cardinality(DOMAIN seen)
    IN [direct |-> {r \in all : RatLe(Rat(9, 10), r.confidence)},
        sector |-> {r \in all : /\ RatLt(r.confidence, Rat(9, 10))
                                /\ RatLe(Rat(5, 10), r.confidence)},
        supply_chain |-> {r \in all : RatLt(r.confidence, Rat(5, 10))},
        overall_confidence |->
            IF n = 0 THEN Zero
            ELSE RatMul(SumConfidence(seen, DOMAIN seen), Rat(1, n))]

\* ImpactAnalysisAgent.process: the impact_analysis put on the article.  The
\* supply chain lookup of a sector that is no node raises, and the except
\* branch puts the empty analysis.
ImpactAnalysis(entities) ==
    IF \E i \in DOMAIN entities.sectors :
          get_supply_chain_impact(entities.sectors[i]).status = "raised"
    THEN NoImpacts
    ELSE _consolidate_impacts(
            DirectImpacts(entities.companies),
            SectorImpacts(entities.sectors) \o RegulatoryImpacts(entities.regulators),
            SupplyChainImpacts(entities.sectors))

AnalysisCalls ==
    {[op |-> "process", args |-> <<Entities(c, s, r, <<>>)>>] :
        c \in {<<>>, <<"TCS", "NEWCO", "HDFC Bank">>},
        s \in {<<>>, <<"Steel", "IT">>, <<"Banking", "Pharma">>},
        r \in {<<>>, <<"SEBI", "RBI">>}}

InitImpact == SeedGraph /\ FreshAgents /\ call \in AnalysisCalls /\ qry = QIdle

Call_process ==
    /\ call.op = "process"
    /\ ret' = Returned(ImpactAnalysis(call.args[1]))
    /\ UNCHANGED <<graphVars, nOps, call, qry, agentVars>>

NextImpact == add_company \/ add_relationship \/ Call_process

SpecImpact == InitImpact /\ [][NextImpact]_vars

\* QueryProcessingAgent.process, one action per step.  The query's entities
\* (step 1) and the articles the vector store holds, nearest first, are inputs.
QueryEntityOptions ==
    { Entities(<<>>, <<>>, <<>>, <<>>),
      Entities(<<>>, <<>>, <<>>, <<"Rate Change">>),
      Entities(<<>>, <<"Banking">>, <<>>, <<>>),
      Entities(<<"TCS">>, <<"IT">>, <<>>, <<>>),
      Entities(<<>>, <<"Banking">>, <<"RBI">>, <<"Rate Change">>),
      \* the dictionary match lists the name as a regulator and the NER pass, for
      \* the indicator 'Bank' in it, as a company
      Entities(<<"Reserve Bank of India">>, <<>>, <<"Reserve Bank of India">>, <<>>) }

StoredEntityOptions ==
    { ListEntities(<<>>),
      ListEntities(<<"TCS", "IT">>),
      DictEntities(Entities(<<"HDFC Bank">>, <<"Banking">>, <<>>, <<>>)),
      DictEntities(Entities(<<"TCS">>, <<>>, <<>>, <<>>)),
      DictEntities(Entities(<<>>, <<"Banking">>, <<"RBI">>, <<"Rate Change">>)),
      DictEntities(Entities(<<>>, <<>>, <<"Reserve Bank of India">>, <<>>)) }

Similarities == {Rat(9, 10), Rat(5, 10), Rat(0, 10)}

ArticleIds == <<"a1", "a2", "a3", "a4">>

\* the stored articles as the similarity search ranks them for the query
Stores ==
    UNION {
        {[i \in 1..n |-> [id |-> ArticleIds[i], similarity |-> sims[i], entities |-> ents[i]]] :
            sims \in {f \in [1..n -> Similarities] :
                         \A i \in 1..(n - 1) : RatLe(f[i + 1], f[i])},
            ents \in [1..n -> StoredEntityOptions]} :
        n \in 0..MaxStored}

TopKs == {1, 10}

InitQuery ==
    /\ SeedGraph
    /\ FreshAgents
    /\ call = NoCall
    /\ \E store \in Stores, query_entities \in QueryEntityOptions, top_k \in TopKs :
          qry = [pc |-> "start", top_k |-> top_k, store |-> store,
                 query_entities |-> query_entities,
                 expanded_entities |-> {}, results |-> <<>>,
                 response |-> [results |-> <<>>, total_found |-> 0]]

Step_expand_context ==
    /\ qry.pc = "start"
    /\ qry' = [qry EXCEPT !.pc = "expanded",
                          !.expanded_entities = _expand_context(qry.query_entities)]
    /\ UNCHANGED <<graphVars, nOps, call, ret, agentVars>>

Step_hybrid_search ==
    /\ qry.pc = "expanded"
    /\ qry' = [qry EXCEPT !.pc = "searched",
                          !.results = hybrid_search(qry.store, qry.expanded_entities,
                                                    qry.top_k * 2)]
    /\ UNCHANGED <<graphVars, nOps, call, ret, agentVars>>

Step_rerank_results ==
    /\ qry.pc = "searched"
    /\ qry' = [qry EXCEPT !.pc = "ranked",
                          !.results = _rerank_results(qry.results, qry.query_entities)]
    /\ UNCHANGED <<graphVars, nOps, call, ret, agentVars>>

\* 'results': ranked_results[:top_k], 'total_found': len(ranked_results)
Step_return ==
    /\ qry.pc = "ranked"
    /\ qry' = [qry EXCEPT !.pc = "done",
                          !.response = [results |-> FirstN(qry.results, qry.top_k),
                                        total_found |-> Len(qry.results)]]
    /\ UNCHANGED <<graphVars, nOps, call, ret, agentVars>>

NextQuery ==
    \/ Step_expand_context
    \/ Step_hybrid_search
    \/ Step_rerank_results
    \/ Step_return

SpecQuery == InitQuery /\ [][NextQuery]_vars

\* ================================================================ agents
\* The objects TradlOrchestrator.__init__ builds.  ingestion_agent,
\* deduplication_agent and storage_agent hold the fields of the three agents,
\* collection the documents of the vector store in insertion order, state the
\* NewsProcessingState of one workflow run with the node that runs next.  log
\* records what earlier calls established, for stating properties: the list
\* each query last fetched with success, the articles the deduplication agent
\* has processed, or the entities the extraction agent attached.

\* ----------------------------------------------------- serialisation, Fernet
\* json.dumps / json.loads: loads gives back the value of a text dumps wrote and
\* raises on any other text
dumps(v) == <<"json", v>>
loads(text) == IF text[1] = "json" THEN Returned(text[2]) ELSE Raised

\* Fernet.encrypt / Fernet.decrypt under the one key of the process: decrypt
\* gives back the plaintext of a token and raises InvalidToken on other text.
\* The random part of a token is left out.
encrypt(plaintext) == <<"fernet", plaintext>>
decrypt(token) == IF token[1] = "fernet" THEN Returned(token[2]) ELSE Raised

\* ----------------------------------------------------------- news ingestion
\* the [:50] of fetch_news
FetchLimit == 50

\* art.get('language', 'en') == 'en'
IsEnglish(art) == art.language \in {None, "en"}

\* NewsIngestionAgent._load_cache without the decrypt step
_load_cachePlain(query) ==
    IF query \notin DOMAIN ingestion_agent.cache THEN <<>>
    ELSE LET loaded == loads(ingestion_agent.cache[query])
         IN IF loaded.status = "raised" THEN <<>> ELSE loaded.value

\* NewsIngestionAgent._load_cache
_load_cache(query) ==
    IF query \notin DOMAIN ingestion_agent.cache THEN <<>>
    ELSE LET cache_val == ingestion_agent.cache[query]
             decrypted == IF ingestion_agent.fernet
                          THEN decrypt(cache_val)
                          ELSE Returned(cache_val)
             loaded == IF decrypted.status = "raised"
                       THEN Raised
                       ELSE loads(decrypted.value)
         IN IF loaded.status = "raised" THEN <<>> ELSE loaded.value

\* the outcome of session.get: the request failed, or it gave a status and a
\* body whose 'articles' are a list (Returned) or cannot be read (Raised)
FetchedArticles ==
    { [title |-> "RBI hikes repo rate", language |-> None],
      [title |-> "RBI ne repo rate badhaya", language |-> "hi"],
      [title |-> "Banks rally", language |-> "en"] }

Responses ==
    {[failed |-> TRUE, status |-> 0, articles |-> Raised]}
    \cup {[failed |-> FALSE, status |-> 429, articles |-> Returned(<<>>)]}
    \cup {[failed |-> FALSE, status |-> 200, articles |-> Raised]}
    \cup {[failed |-> FALSE, status |-> 200, articles |-> Returned(l)] :
            l \in {<<>>} \cup {<<a>> : a \in FetchedArticles}
                  \cup {<<a, b>> : a, b \in FetchedArticles}}

Queries == {"RBI", "repo rate"}

\* NewsIngestionAgent.fetch_news: what it returns and the cache it leaves
fetch_newsResult(query, resp) ==
    IF ~ingestion_agent.api_key
    THEN [articles |-> _load_cache(query), cache |-> ingestion_agent.cache]
    ELSE IF resp.failed \/ resp.status # 200 \/ resp.articles.status = "raised"
    THEN [articles |-> _load_cache(query), cache |-> ingestion_agent.cache]
    ELSE LET articles == FirstN(SelectSeq(resp.articles.value, IsEnglish), FetchLimit)
             cache_val == IF ingestion_agent.fernet
                          THEN encrypt(dumps(articles))
                          ELSE dumps(articles)
         IN [articles |-> articles, cache |-> Put(ingestion_agent.cache, query, cache_val)]

InitFetch ==
    /\ SeedGraph
    /\ call = NoCall
    /\ qry = QIdle
    /\ \E api_key \in BOOLEAN, fernet \in BOOLEAN :
          ingestion_agent = NewsIngestionAgent(api_key, fernet)
    /\ deduplication_agent = DeduplicationAgent
    /\ storage_agent = StorageAgent
    /\ collection = <<>>
    /\ state = NoRun
    /\ log = <<>>

\* one fetch_news(query) call and the response the request meets.  log keeps,
\* per query, the list of its last fetch that got status 200 and a readable body.
fetch_news ==
    \E query \in Queries, resp \in Responses :
        LET r == fetch_newsResult(query, resp)
        IN /\ ingestion_agent' = [ingestion_agent EXCEPT !.cache = r.cache]
           /\ ret' = Returned(r.articles)
           /\ call' = [op |-> "fetch_news", args |-> <<query, resp>>]
           /\ log' = IF /\ ingestion_agent.api_key
                        /\ ~resp.failed
                        /\ resp.status = 200
                        /\ resp.articles.status = "returned"
                     THEN Put(log, query, r.articles)
                     ELSE log
           /\ UNCHANGED <<graphVars, nOps, qry, deduplication_agent, storage_agent,
                          collection, state>>

NextFetch == fetch_news

SpecFetch == InitFetch /\ [][NextFetch]_vars

\* ------------------------------------------------ deduplication, storage
\* A text is a sequence of characters.  A key an article does not have is
\* Absent; ids are one-element sequences.
Absent == <<None>>

LowerOf == [R |-> "r", B |-> "b", I |-> "i", U |-> "u", P |-> "p"]

\* str.lower
lower(text) ==
    [i \in DOMAIN text |-> IF text[i] \in DOMAIN LowerOf THEN LowerOf[text[i]] ELSE text[i]]

\* str.strip
RECURSIVE strip(_)
strip(text) ==
    IF text = <<>> THEN <<>>
    ELSE IF Head(text) = " " THEN strip(Tail(text))
    ELSE IF text[Len(text)] = " " THEN strip(SubSeq(text, 1, Len(text) - 1))
    ELSE text

\* hashlib.md5(...).hexdigest(), taken to be free of collisions
md5(text) == <<"md5", text>>

\* f"{article['title']} {article['content']}"
SearchText(article) == article.title \o <<" ">> \o article.content

\* DeduplicationAgent._compute_hash
_compute_hash(text) == md5(strip(lower(text)))

Article(id, title, content) == [id |-> id, title |-> title, content |-> content]

\* the second article is the first in another case and spacing, the fourth has
\* neither an id nor a title
Articles ==
    { Article(<<"a1">>, <<"R", "B", "I">>, <<"u", "p">>),
      Article(<<"a2">>, <<"r", "b", "i">>, <<"U", "p", " ">>),
      Article(<<"a3">>, <<"b", "i">>, <<"u", "p">>),
      Article(Absent, Absent, <<"u", "p">>) }

\* the similarities the embedder can give two texts: 1 - distance
TextSimilarities == {Rat(1, 2), Rat(19, 20), One}

\* the similarity of each stored document to a text, in store order; equal
\* texts have equal embeddings
SimilaritiesTo(coll, text) ==
    {sims \in [DOMAIN coll -> TextSimilarities] :
        \A i \in DOMAIN coll : coll[i].text = text => sims[i] = One}

\* the n_results of collection.query in find_duplicates
QueryLimit == 10

\* VectorStore.find_duplicates: the nearest stored documents first
find_duplicates(coll, article, threshold, sims) ==
    LET hits == FirstN(SortDescBy([i \in DOMAIN coll |->
                                      [id |-> coll[i].id, similarity |-> sims[i]]],
                                  sims),
                       QueryLimit)
        IsDuplicate(hit) == /\ RatLe(threshold, hit.similarity)
                            /\ hit.id # article.id
    IN SelectSeq(hits, IsDuplicate)

DedupResult(is_duplicate, duplicate_of, similarity, method) ==
    [is_duplicate |-> is_duplicate, duplicate_of |-> duplicate_of,
     similarity |-> similarity, method |-> method]

\* DeduplicationAgent.process(article), called without existing_articles as
\* the orchestrator calls it
DeduplicationProcess(agent, coll, article, sims) ==
    IF article.title = Absent
    THEN DedupResult(FALSE, Absent, Zero, "error")
    ELSE LET text_hash == _compute_hash(SearchText(article))
             duplicates == find_duplicates(coll, article, agent.similarity_threshold, sims)
         IN IF text_hash \in DOMAIN agent.duplicate_groups
            THEN DedupResult(TRUE, agent.duplicate_groups[text_hash], One, "exact_match")
            ELSE IF duplicates # <<>>
            THEN DedupResult(TRUE, duplicates[1].id, duplicates[1].similarity,
                             "semantic_match")
            ELSE DedupResult(FALSE, Absent, Zero, "unique")

\* the text add_article and find_duplicates embed: a missing key reads as ''
EmbeddedText(article) ==
    (IF article.title = Absent THEN <<>> ELSE article.title) \o <<" ">> \o article.content

\* VectorStore.add_article when the embedder and the collection do not fail.
\* collection.add leaves a document whose id is already stored as it is.
add_article(coll, article) ==
    LET article_id == IF article.id = Absent THEN md5(article.content) ELSE article.id
    IN [article_id |-> article_id,
        collection |-> IF \E i \in DOMAIN coll : coll[i].id = article_id
                       THEN coll
                       ELSE Append(coll, [id |-> article_id, text |-> EmbeddedText(article)])]

StoreResult(stored, reason, article_id) ==
    [stored |-> stored, reason |-> reason, article_id |-> article_id]

\* StorageAgent.process: the result, and the store and the count it leaves.
\* fails says that add_article raises.  The two log lines read
\* article['title'] inside the try block.
StorageProcess(coll, stored_count, article, is_duplicate, fails) ==
    IF is_duplicate
    THEN [result |-> IF article.title = Absent
                     THEN StoreResult(FALSE, "error", article.id)
                     ELSE StoreResult(FALSE, "duplicate", article.id),
          collection |-> coll, stored_count |-> stored_count]
    ELSE IF fails
    THEN [result |-> StoreResult(FALSE, "error", article.id),
          collection |-> coll, stored_count |-> stored_count]
    ELSE LET added == add_article(coll, article)
         IN [result |-> IF article.title = Absent
                        THEN StoreResult(FALSE, "error", article.id)
                        ELSE StoreResult(TRUE, None, added.article_id),
             collection |-> added.collection, stored_count |-> stored_count + 1]

Min(a, b) == IF a <= b THEN a ELSE b

\* StorageAgent.batch_store from pair i on: for article, is_dup in zip(...)
RECURSIVE BatchStoreFrom(_, _, _, _, _, _, _)
BatchStoreFrom(i, results, coll, stored_count, articles, duplicate_flags, fails) ==
    IF i > Min(Len(articles), Len(duplicate_flags))
    THEN [results |-> results, collection |-> coll, stored_count |-> stored_count]
    ELSE LET r == StorageProcess(coll, stored_count, articles[i], duplicate_flags[i],
                                 fails[i])
             counted == IF r.result.stored
                        THEN [results EXCEPT !.stored = @ + 1]
                        ELSE IF r.result.reason = "duplicate"
                        THEN [results EXCEPT !.skipped = @ + 1]
                        ELSE [results EXCEPT !.errors = @ + 1]
         IN BatchStoreFrom(i + 1, counted, r.collection, r.stored_count,
                           articles, duplicate_flags, fails)

\* StorageAgent.batch_store
batch_store(coll, stored_count, articles, duplicate_flags, fails) ==
    BatchStoreFrom(1, [stored |-> 0, skipped |-> 0, errors |-> 0],
                   coll, stored_count, articles, duplicate_flags, fails)

\* the batches and flag lists handed to batch_store; zip stops at the shorter
Batches ==
    { <<>>,
      <<Article(<<"a1">>, <<"R", "B", "I">>, <<"u", "p">>)>>,
      <<Article(<<"a1">>, <<"R", "B", "I">>, <<"u", "p">>),
        Article(<<"a2">>, <<"r", "b", "i">>, <<"U", "p", " ">>)>>,
      <<Article(Absent, Absent, <<"u", "p">>),
        Article(<<"a3">>, <<"b", "i">>, <<"u", "p">>)>>,
      <<Article(<<"a3">>, <<"b", "i">>, <<"u", "p">>),
        Article(<<"a3">>, <<"b", "i">>, <<"u", "p">>)>> }

FlagLists == {<<FALSE>>, <<FALSE, FALSE>>, <<TRUE, FALSE>>, <<FALSE, TRUE>>}

InitIntake ==
    /\ SeedGraph
    /\ call = NoCall
    /\ qry = QIdle
    /\ ingestion_agent = NewsIngestionAgent(FALSE, FALSE)
    /\ deduplication_agent = DeduplicationAgent
    /\ storage_agent = StorageAgent
    /\ collection = <<>>
    /\ state = NoRun
    /\ log = {}

\* deduplication_agent.process(article); log keeps the articles processed
Call_deduplication_process ==
    \E article \in Articles :
      \E sims \in SimilaritiesTo(collection, EmbeddedText(article)) :
        /\ ret' = Returned(DeduplicationProcess(deduplication_agent, collection,
                                                article, sims))
        /\ call' = [op |-> "deduplication_agent.process", args |-> <<article>>]
        /\ log' = log \cup {article}
        /\ UNCHANGED <<graphVars, nOps, qry, ingestion_agent, deduplication_agent,
                       storage_agent, collection, state>>

\* storage_agent.process(article, is_duplicate)
Call_storage_process ==
    /\ storage_agent.stored_count < MaxStored
    /\ \E article \in Articles, is_duplicate \in BOOLEAN, fails \in BOOLEAN :
          LET r == StorageProcess(collection, storage_agent.stored_count,
                                  article, is_duplicate, fails)
          IN /\ ret' = Returned(r.result)
             /\ call' = [op |-> "storage_agent.process",
                         args |-> <<article, is_duplicate>>]
             /\ collection' = r.collection
             /\ storage_agent' = [storage_agent EXCEPT !.stored_count = r.stored_count]
    /\ UNCHANGED <<graphVars, nOps, qry, ingestion_agent, deduplication_agent,
                   state, log>>

\* storage_agent.batch_store(articles, duplicate_flags)
Call_batch_store ==
    \E articles \in Batches, duplicate_flags \in FlagLists :
      \E fails \in [DOMAIN articles -> BOOLEAN] :
        LET r == batch_store(collection, storage_agent.stored_count,
                             articles, duplicate_flags, fails)
        IN /\ r.stored_count <= MaxStored
           /\ ret' = Returned(r.results)
           /\ call' = [op |-> "storage_agent.batch_store",
                       args |-> <<articles, duplicate_flags>>]
           /\ collection' = r.collection
           /\ storage_agent' = [storage_agent EXCEPT !.stored_count = r.stored_count]
           /\ UNCHANGED <<graphVars, nOps, qry, ingestion_agent, deduplication_agent,
                          state, log>>

\* the deduplication agent beside a storage agent that fills the vector store
NextDedup == Call_deduplication_process \/ Call_storage_process

SpecDedup == InitIntake /\ [][NextDedup]_vars

NextStorage == Call_storage_process \/ Call_batch_store

SpecStorage == InitIntake /\ [][NextStorage]_vars

\* ------------------------------------------------------------- workflow
\* An article is a dict: a function of its keys.  del article[key]:
Del(article, key) == [k \in DOMAIN article \ {key} |-> article[k]]

\* the graph of _build_graph: entry point, edges, END
EntryPoint == "ingest"
WorkflowEdges ==
    [ingest |-> "translate", translate |-> "deduplicate",
     deduplicate |-> "extract_entities", extract_entities |-> "analyze_impact",
     analyze_impact |-> "store", store |-> "END"]

\* state['processed_articles'] holds a list or, after _ingest_node, the
\* coroutine object that calling the async batch_process gives when it is not
\* awaited
List(items) == [kind |-> "list", items |-> items]
Coroutine == [kind |-> "coroutine", items |-> <<>>]

\* for ent in entities: the keys of a dict, the elements of a list
Iterate(entities) == IF entities.is_dict THEN EntityKeys ELSE entities.list

\* [fernet.encrypt(str(ent).encode()).decode() for ent in entities]; str of a
\* string is the string
EncryptEntities(entities) ==
    LET ents == Iterate(entities) IN [i \in DOMAIN ents |-> encrypt(ents[i])]

\* [fernet.decrypt(enc.encode()).decode() for enc in entities_enc]: a list
DecryptEntities(entities_enc) ==
    ListEntities([i \in DOMAIN entities_enc |-> decrypt(entities_enc[i]).value])

\* if 'entities' in article: entities_enc = [...]; del article['entities']
Encrypted(article) ==
    IF "entities" \in DOMAIN article
    THEN Del(Put(article, "entities_enc", EncryptEntities(article.entities)), "entities")
    ELSE article

\* if 'entities_enc' in article: article['entities'] = [...]
Decrypted(article) ==
    IF "entities_enc" \in DOMAIN article
    THEN Put(article, "entities", DecryptEntities(article.entities_enc))
    ELSE article

\* the translator's rendering of a text: another text
Translated(text) == <<"~">> \o text

\* MultilingualAgent.process: lang is the detected language, and
\* "hi_untranslated" a Hindi text on which the translator raised
MultilingualProcess(article, lang) ==
    LET detected == Put(Put(article, "detected_language", IF lang = "en" THEN "en" ELSE "hi"),
                        "translation_applied", lang # "en")
        Render(text) == IF lang = "hi" THEN Translated(text) ELSE text
    IN IF lang = "en" THEN detected
       ELSE LET titled == IF article.title \in {Absent, <<>>} THEN detected
                          ELSE Put(Put(detected, "title_original", article.title),
                                   "title", Render(article.title))
            IN Put(Put(titled, "content_original", article.content),
                   "content", Render(article.content))

\* EntityExtractionAgent.process: found is what the matchers find in the text;
\* an article without a title gets the empty dict of the except branch
EntityProcess(article, found) ==
    Put(article, "entities",
        DictEntities(IF article.title = Absent
                     THEN Entities(<<>>, <<>>, <<>>, <<>>)
                     ELSE found))

FoundOptions ==
    { Entities(<<>>, <<>>, <<>>, <<>>),
      Entities(<<"HDFC Bank">>, <<"Banking">>, <<"RBI">>, <<>>),
      Entities(<<"TCS">>, <<"IT">>, <<>>, <<>>) }

\* ImpactAnalysisAgent.process on the article as _impact_node hands it over:
\* entities.get raises on a list, article['title'] on a missing title, and the
\* except branch puts the empty analysis
ImpactProcess(article) ==
    LET entities == IF "entities" \in DOMAIN article
                    THEN article.entities
                    ELSE DictEntities(Entities(<<>>, <<>>, <<>>, <<>>))
    IN IF article.title = Absent
       THEN Put(article, "impact_analysis", NoImpacts)
       ELSE IF ~entities.is_dict
       THEN Put(Put(article, "sentiment", "sentiment"), "impact_analysis", NoImpacts)
       ELSE Put(Put(article, "sentiment", "sentiment"),
                "impact_analysis", ImpactAnalysis(entities.dict))

\* the batches process_news is given
RawBatches ==
    { <<Article(<<"a1">>, <<"R", "B", "I">>, <<"u", "p">>)>>,
      <<Article(<<"a1">>, <<"R", "B", "I">>, <<"u", "p">>),
        Article(<<"a3">>, <<"b", "i">>, <<"u", "p">>)>>,
      <<Article(Absent, Absent, <<"u", "p">>),
        Article(<<"a2">>, <<"r", "b", "i">>, <<"U", "p", " ">>)>> }

\* what the vector store holds from earlier runs
StoredBefore ==
    { <<>>, <<[id |-> <<"a0">>, text |-> <<"R", "B", "I", " ", "u", "p">>]>> }

\* process_news builds the initial state and invokes the graph at its entry
\* point.  The nodes are also run from translate on a state that holds the
\* articles as a list: node names the node that runs next, "raised" a run that
\* an exception ended.  log keeps the entities the extraction agent attached
\* and those the impact agent was handed.
InitWorkflow ==
    /\ SeedGraph
    /\ qry = QIdle
    /\ ingestion_agent = NewsIngestionAgent(FALSE, FALSE)
    /\ deduplication_agent = DeduplicationAgent
    /\ storage_agent = StorageAgent
    /\ collection \in StoredBefore
    /\ log = [extracted |-> <<>>, handed |-> <<>>]
    /\ \E articles \in RawBatches :
          \/ /\ call = [op |-> "process_news", args |-> <<articles>>]
             /\ state = [node |-> EntryPoint, raw_articles |-> articles,
                         processed_articles |-> List(<<>>), duplicate_flags |-> <<>>,
                         stats |-> <<>>]
          \/ /\ call = [op |-> "_translate_node", args |-> <<articles>>]
             /\ state = [node |-> "translate", raw_articles |-> articles,
                         processed_articles |-> List(articles), duplicate_flags |-> <<>>,
                         stats |-> <<>>]

\* _ingest_node: batch_process is an async def and is called without await
_ingest_node ==
    /\ state.node = "ingest"
    /\ state' = [state EXCEPT !.node = WorkflowEdges.ingest,
                              !.processed_articles = Coroutine]
    /\ UNCHANGED <<graphVars, nOps, call, ret, qry, ingestion_agent,
                   deduplication_agent, storage_agent, collection, log>>

\* _translate_node: iterating a coroutine raises TypeError
_translate_node ==
    /\ state.node = "translate"
    /\ IF state.processed_articles.kind # "list"
       THEN state' = [state EXCEPT !.node = "raised"]
       ELSE LET articles == state.processed_articles.items
            IN \E langs \in [DOMAIN articles -> {"en", "hi", "hi_untranslated"}] :
                  state' = [state EXCEPT
                      !.node = WorkflowEdges.translate,
                      !.processed_articles =
                          List([i \in DOMAIN articles |->
                                   MultilingualProcess(articles[i], langs[i])])]
    /\ UNCHANGED <<graphVars, nOps, call, ret, qry, ingestion_agent,
                   deduplication_agent, storage_agent, collection, log>>

_deduplicate_node ==
    /\ state.node = "deduplicate"
    /\ LET articles == state.processed_articles.items
       IN \E sims \in [DOMAIN articles -> [DOMAIN collection -> TextSimilarities]] :
             /\ \A i \in DOMAIN articles :
                   sims[i] \in SimilaritiesTo(collection, EmbeddedText(articles[i]))
             /\ state' = [state EXCEPT
                   !.node = WorkflowEdges.deduplicate,
                   !.duplicate_flags =
                       [i \in DOMAIN articles |->
                           DeduplicationProcess(deduplication_agent, collection,
                                                articles[i], sims[i]).is_duplicate]]
    /\ UNCHANGED <<graphVars, nOps, call, ret, qry, ingestion_agent,
                   deduplication_agent, storage_agent, collection, log>>

_entity_node ==
    /\ state.node = "extract_entities"
    /\ LET articles == state.processed_articles.items
       IN \E found \in [DOMAIN articles -> FoundOptions] :
             LET processed == [i \in DOMAIN articles |->
                                  EntityProcess(articles[i], found[i])]
             IN /\ state' = [state EXCEPT
                       !.node = WorkflowEdges.extract_entities,
                       !.processed_articles =
                           List([i \in DOMAIN articles |-> Encrypted(processed[i])])]
                /\ log' = [log EXCEPT
                       !.extracted = [i \in DOMAIN articles |-> processed[i].entities]]
    /\ UNCHANGED <<graphVars, nOps, call, ret, qry, ingestion_agent,
                   deduplication_agent, storage_agent, collection>>

_impact_node ==
    /\ state.node = "analyze_impact"
    /\ LET articles == state.processed_articles.items
           handed == [i \in DOMAIN articles |-> Decrypted(articles[i])]
       IN /\ state' = [state EXCEPT
                 !.node = WorkflowEdges.analyze_impact,
                 !.processed_articles =
                     List([i \in DOMAIN articles |-> Encrypted(ImpactProcess(handed[i]))])]
          /\ log' = [log EXCEPT
                 !.handed = [i \in DOMAIN articles |-> handed[i].entities]]
    /\ UNCHANGED <<graphVars, nOps, call, ret, qry, ingestion_agent,
                   deduplication_agent, storage_agent, collection>>

_storage_node ==
    /\ state.node = "store"
    /\ LET articles == state.processed_articles.items
       IN \E fails \in [DOMAIN articles -> BOOLEAN] :
             LET r == batch_store(collection, storage_agent.stored_count,
                                  articles, state.duplicate_flags, fails)
             IN /\ state' = [state EXCEPT !.node = WorkflowEdges.store,
                                          !.stats = r.results]
                /\ collection' = r.collection
                /\ storage_agent' = [storage_agent EXCEPT !.stored_count = r.stored_count]
    /\ UNCHANGED <<graphVars, nOps, call, ret, qry, ingestion_agent,
                   deduplication_agent, log>>

\* process_news after graph.invoke: decrypt for the caller, build the answer
process_news ==
    /\ state.node = "END"
    /\ LET articles == state.processed_articles.items
           Shown(art) == IF "entities_enc" \in DOMAIN art
                         THEN Del(Decrypted(art), "entities_enc")
                         ELSE art
       IN ret' = Returned([processed |-> Len(articles),
                           stored |-> state.stats.stored,
                           duplicates |-> state.stats.skipped,
                           errors |-> state.stats.errors,
                           articles |-> [i \in DOMAIN articles |-> Shown(articles[i])]])
    /\ state' = [state EXCEPT !.node = "returned"]
    /\ UNCHANGED <<graphVars, nOps, call, qry, ingestion_agent,
                   deduplication_agent, storage_agent, collection, log>>

NextWorkflow ==
    \/ _ingest_node
    \/ _translate_node
    \/ _deduplicate_node
    \/ _entity_node
    \/ _impact_node
    \/ _storage_node
    \/ process_news

SpecWorkflow == InitWorkflow /\ [][NextWorkflow]_vars

\* ================================================================ claims
\* Hop counts are restated here from walks of an exact number of edges, apart
\* from the breadth-first search of the model.
EdgeSet == DOMAIN relationship
StepOut(S) == {x[2] : x \in {y \in EdgeSet : y[1] \in S}}
StepIn(S) == {x[1] : x \in {y \in EdgeSet : y[2] \in S}}

RECURSIVE WalkOut(_, _)
WalkOut(S, j) == IF j = 0 THEN S ELSE WalkOut(StepOut(S), j - 1)

RECURSIVE WalkIn(_, _)
WalkIn(S, j) == IF j = 0 THEN S ELSE WalkIn(StepIn(S), j - 1)

Least(S) == CHOOSE x \in S : \A y \in S : x <= y

\* j |-> the nodes at the end of a walk of exactly j edges out of e (into e)
WalksForward(e, k) == [j \in 1..k |-> WalkOut({e}, j)]
WalksBackward(e, k) == [j \in 1..k |-> WalkIn({e}, j)]

\* the lengths of the walks in W that end (start) at n
Hops(W, n) == {j \in DOMAIN W : n \in W[j]}

Answered == ret.status # "pending"

IsImpactCall == call.op = "get_impacted_entities" /\ Answered

InUnitInterval(c) == RatLt(Zero, c) /\ RatLe(c, One)

\* C1 as stated: every node (other than e) at forward distance d <= k is mapped
\* to 1/(d+1), every node at backward distance d <= k to 0.7/(d+1), the minimum
\* hop count decides, and every value lies in (0, 1].
C1_AsStated ==
    IsImpactCall =>
        LET e == call.args[1]
            k == call.args[2]
            m == ret.value
            Wf == WalksForward(e, k)
            Wb == WalksBackward(e, k)
        IN /\ ret.status = "returned"
           /\ \A n \in nodes \ {e} :
                 /\ Hops(Wf, n) # {} =>
                       /\ n \in DOMAIN m
                       /\ RatEq(m[n], Rat(1, Least(Hops(Wf, n)) + 1))
                 /\ Hops(Wb, n) # {} =>
                       /\ n \in DOMAIN m
                       /\ RatEq(m[n], Rat(7, 10 * (Least(Hops(Wb, n)) + 1)))
           /\ \A n \in DOMAIN m : InUnitInterval(m[n])

\* C1 amended: a node other than e at backward distance d <= k is mapped to
\* 0.7/(d+1); a node other than e at forward distance d <= k that has no path
\* to e within k hops is mapped to 1/(d+1); the minimum hop count decides, and
\* every value lies in (0, 1].
C1_ImpactConfidence ==
    IsImpactCall =>
        LET e == call.args[1]
            k == call.args[2]
            m == ret.value
            Wf == WalksForward(e, k)
            Wb == WalksBackward(e, k)
        IN /\ ret.status = "returned"
           /\ \A n \in nodes \ {e} :
                 /\ (Hops(Wf, n) # {} /\ Hops(Wb, n) = {}) =>
                       /\ n \in DOMAIN m
                       /\ RatEq(m[n], Rat(1, Least(Hops(Wf, n)) + 1))
                 /\ Hops(Wb, n) # {} =>
                       /\ n \in DOMAIN m
                       /\ RatEq(m[n], Rat(7, 10 * (Least(Hops(Wb, n)) + 1)))
           /\ \A n \in DOMAIN m : InUnitInterval(m[n])

\* a call whose result holds a forward node reached by walks of two different
\* lengths and a node that reaches e
C1_Witness ==
    /\ IsImpactCall
    /\ call.args[1] \in nodes
    /\ LET Wf == WalksForward(call.args[1], call.args[2])
           Wb == WalksBackward(call.args[1], call.args[2])
       IN /\ \E n \in DOMAIN ret.value :
                Cardinality(Hops(Wf, n)) >= 2 /\ Hops(Wb, n) = {}
          /\ \E n \in DOMAIN ret.value : Hops(Wb, n) # {}

\* C2 as stated: on the seed graph get_impacted_entities("RBI", 2) holds
\* HDFCBANK with confidence 1/3.
C2_SeedRbiReachesHdfcbank ==
    (nOps = 0 /\ IsImpactCall /\ call.args = <<"RBI", 2>>) =>
        /\ ret.status = "returned"
        /\ "HDFCBANK" \in DOMAIN ret.value
        /\ RatEq(ret.value["HDFCBANK"], Rat(1, 3))

\* C7: get_impacted_entities(e, 0) is the empty mapping, also when e lies on a
\* cycle or carries a self-loop.
C7_DepthZeroEmpty ==
    (IsImpactCall /\ call.args[2] = 0) =>
        /\ ret.status = "returned"
        /\ DOMAIN ret.value = {}

\* a depth-0 call on a node that has a self-loop and a longer cycle through it
C7_Witness ==
    /\ IsImpactCall
    /\ call.args[2] = 0
    /\ call.args[1] \in nodes
    /\ has_edge(call.args[1], call.args[1])
    /\ \E n \in nodes \ {call.args[1]} :
          has_edge(call.args[1], n) /\ has_edge(n, call.args[1])

\* C8: for an id that is not a node, get_impacted_entities returns the empty
\* mapping for every max_depth and does not raise.
C8_AbsentEntityEmpty ==
    (IsImpactCall /\ call.args[1] \notin nodes) =>
        /\ ret.status = "returned"
        /\ DOMAIN ret.value = {}

\* a call with a positive depth on an absent id, after the graph has grown
C8_Witness ==
    /\ IsImpactCall
    /\ call.args[1] \notin nodes
    /\ call.args[2] > 0
    /\ nOps > 0
IsLookupCall ==
    /\ call.op \in {"explain_relationship", "get_supply_chain_impact",
                    "get_companies_in_sector"}
    /\ Answered

\* C3 as stated: for an id that is not a node, get_supply_chain_impact,
\* explain_relationship (the id as source or as target) and
\* get_companies_in_sector return an empty result and do not raise.
C3_AbsentIdLookupsEmpty ==
    (IsLookupCall /\ \E i \in DOMAIN call.args : call.args[i] \notin nodes) =>
        /\ ret.status = "returned"
        /\ DOMAIN ret.value = {}

\* C4 as stated: no edge of the graph has its source as its target.
C4_NoSelfLoop == \A e \in DOMAIN relationship : e[1] # e[2]

NodeTypes == {"company", "sector", "regulator", "macro-factor"}

\* C5 as stated: every node on a directed path out of a regulator node or a
\* sector node has a type among company, sector, regulator, macro-factor.
C5_ReachableNodesTyped ==
    \A r \in {n \in nodes : attrs[n].type \in {"regulator", "sector"}} :
        \A n \in ReachForward({r}, {r}) : attrs[n].type \in NodeTypes

IsExplainCall == call.op = "explain_relationship" /\ Answered

\* the nodes a description passes, in order
DescribedNodes(a, desc) == <<a>> \o [i \in DOMAIN desc |-> desc[i][3]]

\* desc is a chain of at most 3 segments "X rel Y" from a to b over distinct
\* nodes, every segment an edge X->Y that stores rel
DescribesSimplePath(desc, a, b) ==
    LET ns == DescribedNodes(a, desc)
    IN /\ Len(desc) <= 3
       /\ ns[Len(ns)] = b
       /\ Cardinality(Range(ns)) = Len(ns)
       /\ \A i \in DOMAIN desc :
             /\ desc[i][1] = ns[i]
             /\ <<desc[i][1], desc[i][3]>> \in DOMAIN relationship
             /\ relationship[<<desc[i][1], desc[i][3]>>] = desc[i][2]

\* C9: explain_relationship(a, b) returns at most 3 descriptions, each of a
\* simple directed path from a to b of at most 3 edges whose segments are
\* edges with their stored kind; it returns the empty sequence when a or b is
\* absent or no directed path of at most 3 edges leads from a to b.
C9_ExplainPaths ==
    IsExplainCall =>
        LET a == call.args[1]
            b == call.args[2]
        IN /\ ret.status = "returned"
           /\ Len(ret.value) <= 3
           /\ \A i \in DOMAIN ret.value : DescribesSimplePath(ret.value[i], a, b)
           /\ (a \notin nodes \/ b \notin nodes
                  \/ \A j \in 0..3 : b \notin WalkOut({a}, j))
                 => ret.value = <<>>

\* three descriptions returned where the graph holds more than three simple
\* paths within the cutoff, one of them of three edges
C9_Witness ==
    /\ IsExplainCall
    /\ ret.status = "returned"
    /\ Len(ret.value) = 3
    /\ \E i \in DOMAIN ret.value : Len(ret.value[i]) = 3
    /\ Len(all_simple_paths(call.args[1], call.args[2], 3, FALSE)) > 3

\* C10: on the seed graph explain_relationship("RBI", "HDFCBANK") returns the
\* empty sequence: HDFCBANK is only reached against the HDFCBANK->Banking edge.
C10_SeedRbiToHdfcbankEmpty ==
    (nOps = 0 /\ IsExplainCall /\ call.args = <<"RBI", "HDFCBANK">>) =>
        /\ ret.status = "returned"
        /\ ret.value = <<>>

\* the call answered on the seed graph, where RBI -> Banking <- HDFCBANK
C10_Witness ==
    /\ nOps = 0
    /\ IsExplainCall
    /\ call.args = <<"RBI", "HDFCBANK">>
    /\ has_edge("RBI", "Banking")
    /\ has_edge("HDFCBANK", "Banking")
IsRanked == qry.pc \in {"ranked", "done"}

HalfSimilarityPlusMatch(similarity, entity_match) ==
    RatAdd(RatMul(Rat(1, 2), similarity), RatMul(Rat(3, 10), entity_match))

\* C6 as stated: final_score = 0.5 * similarity + 0.3 * entityMatch + 0.2 * 0,
\* similarity being the semantic similarity the vector search returned.
C6_FinalScoreFromSimilarity ==
    IsRanked =>
        \A i \in DOMAIN qry.results :
            RatEq(qry.results[i].final_score,
                  HalfSimilarityPlusMatch(qry.results[i].similarity,
                                          qry.results[i].score_breakdown.entity_match))

\* the members of the stored entities as hybrid_search iterates them: the
\* keys of a dict, the items of a list
Iterated(e, x) ==
    IF e.is_dict THEN \E i \in DOMAIN EntityKeys : EntityKeys[i] = x
    ELSE \E i \in DOMAIN e.list : e.list[i] = x

\* what hybrid_search leaves as the semantic component: 0.7 * similarity +
\* 0.3 * (share of the expanded entities found by iterating the stored
\* entities) when the expanded entity list is not empty, else the similarity
SemanticOf(r) ==
    IF qry.expanded_entities = {} THEN r.similarity
    ELSE RatAdd(RatMul(Rat(7, 10), r.similarity),
                RatMul(Rat(3, 10),
                       Rat(Cardinality({x \in qry.expanded_entities :
                                           Iterated(r.entities, x)}),
                           Cardinality(qry.expanded_entities))))

\* C6 amended: final_score = 0.5 * semantic + 0.3 * entityMatch + 0.2 * 0, where
\* semantic is the combined score 0.7 * similarity + 0.3 * entity_score that
\* hybrid_search sets when the expanded entity list is not empty, and the
\* similarity itself only when that list is empty.
C6_FinalScoreFromCombined ==
    IsRanked =>
        \A i \in DOMAIN qry.results :
            RatEq(qry.results[i].final_score,
                  HalfSimilarityPlusMatch(SemanticOf(qry.results[i]),
                                          qry.results[i].score_breakdown.entity_match))

\* a ranked result with a positive similarity, a positive entity match and a
\* combined score to which the entity overlap of hybrid_search contributed
C6_Witness ==
    /\ IsRanked
    /\ qry.expanded_entities # {}
    /\ \E i \in DOMAIN qry.results :
          /\ RatLt(Zero, qry.results[i].similarity)
          /\ RatLt(Zero, qry.results[i].score_breakdown.entity_match)
          /\ RatLt(RatMul(Rat(7, 10), qry.results[i].similarity),
                   qry.results[i].score_breakdown.semantic)

IsSupplyChainCall == call.op = "get_supply_chain_impact" /\ ret.status = "returned"

\* the nodes with a DEPENDS_ON edge into S, and those S has one into
DependentsOf(S) == {n \in nodes : <<n, S>> \in EdgeSet /\ relationship[<<n, S>>] = "DEPENDS_ON"}
DependenciesOf(S) == {n \in nodes : <<S, n>> \in EdgeSet /\ relationship[<<S, n>>] = "DEPENDS_ON"}

C12_SupplyChainValues ==
    IsSupplyChainCall =>
        \A n \in DOMAIN ret.value :
            RatEq(ret.value[n], Rat(6, 10)) \/ RatEq(ret.value[n], Rat(7, 10))

\* a returned mapping that holds both values
C12_Witness ==
    /\ IsSupplyChainCall
    /\ \E n \in DOMAIN ret.value : RatEq(ret.value[n], Rat(6, 10))
    /\ \E n \in DOMAIN ret.value : RatEq(ret.value[n], Rat(7, 10))

\* where the result with this id stands in a result list
PositionOf(results, id) == CHOOSE i \in DOMAIN results : results[i].id = id

\* C13: _rerank_results returns the results it was given in non-increasing
\* order of final_score, and results with equal final_score keep the relative
\* order they had in the input list.
C13_RerankSortedStable ==
    [][Step_rerank_results =>
         LET input == qry.results
             output == qry'.results
         IN /\ Len(output) = Len(input)
            /\ {output[i].id : i \in DOMAIN output} = {input[i].id : i \in DOMAIN input}
            /\ \A i, j \in DOMAIN output :
                  i < j =>
                     /\ RatLe(output[j].final_score, output[i].final_score)
                     /\ RatEq(output[j].final_score, output[i].final_score) =>
                           PositionOf(input, output[i].id) < PositionOf(input, output[j].id)
    ]_vars

\* two ranked results with the same final score
C13_Witness ==
    /\ qry.pc = "ranked"
    /\ \E i, j \in DOMAIN qry.results :
          /\ i < j
          /\ RatEq(qry.results[i].final_score, qry.results[j].final_score)
          /\ RatLt(Zero, qry.results[i].final_score)

\* the ranking puts a result first that hybrid_search had put second
C13_Reordered ==
    /\ qry.pc = "ranked"
    /\ Len(qry.results) >= 2
    /\ LET input == hybrid_search(qry.store, qry.expanded_entities, qry.top_k * 2)
       IN input[1].id # qry.results[1].id

IsExpandCall == call.op = "_expand_context" /\ ret.status = "returned"

\* the query names one sector and nothing else
OnlySector(S) == call.args[1] = Entities(<<>>, <<S>>, <<>>, <<>>)

\* the company-typed nodes with a PART_OF edge into S
PartOfCompanies(S) ==
    {n \in nodes : /\ attrs[n].type = "company"
                   /\ <<n, S>> \in EdgeSet
                   /\ relationship[<<n, S>>] = "PART_OF"}

\* C14: for a sector S of the graph, _expand_context({sectors: [S]}) contains
\* every company-typed node with a PART_OF edge into S; on the seed graph with
\* S = "Banking" these are HDFCBANK, ICICIBANK and AXISBANK.
C14_ExpandHoldsSectorCompanies ==
    /\ IsExpandCall =>
          \A S \in nodes : OnlySector(S) => PartOfCompanies(S) \subseteq ret.value
    /\ (IsExpandCall /\ OnlySector("Banking") /\ nOps = 0) =>
          /\ PartOfCompanies("Banking") = {"HDFCBANK", "ICICIBANK", "AXISBANK"}
          /\ {"HDFCBANK", "ICICIBANK", "AXISBANK"} \subseteq ret.value

\* Banking expanded after a company was registered in it
C14_Witness ==
    /\ IsExpandCall
    /\ OnlySector("Banking")
    /\ "NEWCO" \in PartOfCompanies("Banking")
    /\ "NEWCO" \in ret.value

\* the nodes other than e within k directed hops of e, in either direction
WithinHops(e, k) ==
    (UNION {WalkOut({e}, j) : j \in 1..k} \cup UNION {WalkIn({e}, j) : j \in 1..k}) \ {e}

\* the members of a list, as a set
Members(list) == {list[i] : i \in DOMAIN list}

\* the company-typed predecessors of S
CompanyPredecessors(S) == {n \in nodes : attrs[n].type = "company" /\ <<n, S>> \in EdgeSet}

\* C20: _expand_context returns, as a set that does not depend on the order or
\* the repetitions of the input lists, exactly the supplied companies, sectors
\* and regulators, plus for each supplied company of the graph the entities
\* impacted at depth 2, for each supplied sector of the graph its company-typed
\* predecessors and the entities impacted at depth 1, and for each supplied
\* regulator of the graph the entities impacted at depth 2.
C20_ExpandIsUnion ==
    IsExpandCall =>
        LET cs == Members(call.args[1].companies)
            ss == Members(call.args[1].sectors)
            rs == Members(call.args[1].regulators)
        IN ret.value =
              cs \cup ss \cup rs
              \cup UNION {WithinHops(c, 2) : c \in cs \cap nodes}
              \cup UNION {CompanyPredecessors(x) \cup WithinHops(x, 1) : x \in ss \cap nodes}
              \cup UNION {WithinHops(r, 2) : r \in rs \cap nodes}

\* two sectors, one of them repeated, an absent id and a registered company
\* expanded together into more than was supplied
C20_Witness ==
    /\ IsExpandCall
    /\ call.args[1].sectors = <<"GHOST", "Banking", "Banking">>
    /\ call.args[1].companies = <<"NEWCO">>
    /\ "NEWCO" \in nodes
    /\ WithinHops("NEWCO", 2) # {}
    /\ "GHOST" \in ret.value
    /\ "HDFCBANK" \in ret.value

\* C15: across add_company, add_relationship and query calls the graph only
\* grows: every node and every ordered (source, target) edge of a state is in
\* the next state, hence in all later ones.
C15_GraphOnlyGrows ==
    [][/\ nodes \subseteq nodes'
       /\ DOMAIN relationship \subseteq DOMAIN relationship'
       /\ \A i \in DOMAIN edges : edges'[i] = edges[i]]_vars

\* a node and an edge were added to the seed graph and a query was answered
C15_Witness ==
    /\ Answered
    /\ "NEWCO" \in nodes
    /\ <<"NEWCO", "Banking">> \in DOMAIN relationship
    /\ SeedNodes \subseteq nodes
    /\ DOMAIN SeedRelationship \subseteq DOMAIN relationship

\* C16 as stated: once a node exists, no add_company or add_relationship call
\* changes its type or its display name.
C16_NodeAttrsFrozen ==
    [][\A n \in nodes : attrs'[n] = attrs[n]]_vars

\* C17 (1): each ordered pair is one edge carrying one relationship kind.
\* (2): add_relationship on a pair sets its kind to the new one and, when the
\* pair was an edge already, adds no edge and no node.  (3): a call that
\* repeats what the pair already carries leaves the graph unchanged.
C17_UpsertIdempotent ==
    /\ [](/\ \A i, j \in DOMAIN edges : edges[i] = edges[j] => i = j
          /\ Range(edges) = DOMAIN relationship)
    /\ [][\A source \in SourceIds, target \in TargetIds, kind \in Kinds :
             add_relationshipCall(source, target, kind) =>
                /\ relationship'[<<source, target>>] = kind
                /\ has_edge(source, target) =>
                      /\ edges' = edges
                      /\ nodes' = nodes
                      /\ attrs' = attrs
                      /\ \A e \in DOMAIN relationship \ {<<source, target>>} :
                            relationship'[e] = relationship[e]
                /\ (has_edge(source, target) /\ relationship[<<source, target>>] = kind) =>
                      UNCHANGED graphVars
      ]_vars

\* the seed edge RBI -> Banking had its kind REGULATES replaced, and the call
\* was made a second time: two calls, and nothing else differs from the seed
C17_Witness ==
    /\ nOps = 2
    /\ relationship = [SeedRelationship EXCEPT ![<<"RBI", "Banking">>] = "DEPENDS_ON"]
    /\ edges = SeedEdges
    /\ nodes = SeedNodes
    /\ attrs = SeedAttrs

\* C18: a node in range of e in both directions carries the value written
\* last, the backward value 0.7/(d_back+1), also where the forward value
\* 1/(d_fwd+1) is the larger one.
C18_BackwardOverwritesForward ==
    IsImpactCall =>
        LET e == call.args[1]
            Wf == WalksForward(e, call.args[2])
            Wb == WalksBackward(e, call.args[2])
        IN \A n \in nodes \ {e} :
              (Hops(Wf, n) # {} /\ Hops(Wb, n) # {}) =>
                 /\ n \in DOMAIN ret.value
                 /\ RatEq(ret.value[n], Rat(7, 10 * (Least(Hops(Wb, n)) + 1)))

\* a node on a cycle through e whose forward value would have been larger
C18_Witness ==
    /\ IsImpactCall
    /\ LET e == call.args[1]
           Wf == WalksForward(e, call.args[2])
           Wb == WalksBackward(e, call.args[2])
       IN \E n \in DOMAIN ret.value :
             /\ n # e
             /\ Hops(Wf, n) # {}
             /\ Hops(Wb, n) # {}
             /\ RatLt(ret.value[n], Rat(1, Least(Hops(Wf, n)) + 1))

\* C19 as stated: the result of get_impacted_entities holds no node that has no
\* type attribute.
C19_NoUntypedImpacted ==
    IsImpactCall => \A n \in DOMAIN ret.value : attrs[n].type # None

\* the names in the entity lists of a dict, as a set
NamesOf(ents) == UNION {Members(ents[EntityKeys[i]]) : i \in DOMAIN EntityKeys}

\* the names among a stored article's entities, as a set
StoredNames(e) == IF e.is_dict THEN NamesOf(e.dict) ELSE Members(e.list)

\* C21 as stated: entity_match = |Q \cap R| / max(|Q|, 1) with Q the set of the
\* query's entities and R the set of the result's entities, a value in [0, 1].
C21_EntityMatchOverSets ==
    IsRanked =>
        \A i \in DOMAIN qry.results :
            LET Q == NamesOf(qry.query_entities)
                R == StoredNames(qry.results[i].entities)
                entity_match == qry.results[i].score_breakdown.entity_match
            IN /\ RatEq(entity_match, Rat(Cardinality(Q \cap R), Max(Cardinality(Q), 1)))
               /\ RatLe(Zero, entity_match)
               /\ RatLe(entity_match, One)

IsAnalysis == call.op = "process" /\ ret.status = "returned"

\* the records of an impact analysis, whatever their category
RecordsOf(a) == a.direct \cup a.sector \cup a.supply_chain

\* the records process builds before it consolidates them
CandidateImpacts(entities) ==
    Members(DirectImpacts(entities.companies))
        \cup Members(SectorImpacts(entities.sectors))
        \cup Members(RegulatoryImpacts(entities.regulators))
        \cup Members(SupplyChainImpacts(entities.sectors))

\* C22: in the impact analysis each entity has at most one record across the
\* three categories, that record has the highest confidence among the entity's
\* candidates, 'direct' holds confidences >= 0.9, 'sector' those in [0.5, 0.9),
\* 'supply_chain' those < 0.5, and every confidence and overall_confidence
\* lies in [0, 1].
C22_ConsolidatedImpacts ==
    IsAnalysis =>
        LET a == ret.value
            all == RecordsOf(a)
        IN /\ \A r1, r2 \in all : r1.entity = r2.entity => r1 = r2
           /\ a.direct \cap a.sector = {}
           /\ a.direct \cap a.supply_chain = {}
           /\ a.sector \cap a.supply_chain = {}
           /\ all # {} =>
                 \A r \in all :
                    /\ r \in CandidateImpacts(call.args[1])
                    /\ \A c \in CandidateImpacts(call.args[1]) :
                          c.entity = r.entity => RatLe(c.confidence, r.confidence)
           /\ \A r \in a.direct : RatLe(Rat(9, 10), r.confidence)
           /\ \A r \in a.sector : RatLe(Rat(5, 10), r.confidence)
                                  /\ RatLt(r.confidence, Rat(9, 10))
           /\ \A r \in a.supply_chain : RatLt(r.confidence, Rat(5, 10))
           /\ \A r \in all : RatLe(Zero, r.confidence) /\ RatLe(r.confidence, One)
           /\ RatLe(Zero, a.overall_confidence)
           /\ RatLe(a.overall_confidence, One)

\* all three categories are filled and an entity with a weaker candidate kept
\* its stronger one
C22_Witness ==
    /\ IsAnalysis
    /\ ret.value.direct # {}
    /\ ret.value.sector # {}
    /\ ret.value.supply_chain # {}
    /\ \E r \in RecordsOf(ret.value), c \in CandidateImpacts(call.args[1]) :
          c.entity = r.entity /\ RatLt(c.confidence, r.confidence)

\* C27 as stated: a record with the reasoning "Regulated by <regulator>" has a
\* confidence between 0.6 and 0.7.
C27_RegulatedConfidenceBand ==
    IsAnalysis =>
        \A r \in RecordsOf(ret.value) :
            r.reasoning.why = "Regulated by" =>
                RatLe(Rat(6, 10), r.confidence) /\ RatLe(r.confidence, Rat(7, 10))

\* C28 as stated: every company of entities.companies that is a graph node has
\* a 'direct' record with confidence 1.0, whatever sectors and regulators the
\* article lists.
C28_DirectCompaniesKept ==
    IsAnalysis =>
        \A i \in DOMAIN call.args[1].companies :
            call.args[1].companies[i] \in nodes =>
                \E r \in ret.value.direct :
                    /\ r.entity = call.args[1].companies[i]
                    /\ RatEq(r.confidence, One)

\* C30: for an entity e of the graph and a depth k, the keys of a result of
\* get_impacted_entities(e, k) obtained earlier are all keys of the result on
\* the graph as add_company and add_relationship calls have changed it since.
C30_ReachMonotone ==
    (ret.status = "held" /\ call.op = "get_impacted_entities") =>
        DOMAIN ret.value
            \subseteq DOMAIN get_impacted_entities(call.args[1], call.args[2]).value

\* RBI's impacted entities at depth 1: the caller holds the seed's two, and the
\* grown graph adds a third
C30_Witness ==
    /\ ret.status = "held"
    /\ call.args = <<"RBI", 1>>
    /\ DOMAIN ret.value = {"Banking", "Interest Rates"}
    /\ DOMAIN get_impacted_entities("RBI", 1).value = {"Banking", "Interest Rates", "NEWCO"}
\* ------------------------------------------------------------------ C26
IsFetchCall == call.op = "fetch_news"

\* the call met one of the failures the claim names
FetchFailed(agent, resp) == ~agent.api_key \/ resp.failed \/ resp.status # 200

\* the list the most recent successful fetch of the query stored, if any
LastFetched(query) == IF query \in DOMAIN log THEN log[query] ELSE <<>>

CacheEntry(agent, query) ==
    IF query \in DOMAIN agent.cache THEN <<agent.cache[query]>> ELSE <<>>

\* C26: fetch_news(q) never raises; without an API key, on a status other than
\* 200 or on a failed request it returns the list the most recent successful
\* fetch of q stored, or the empty list when there was none; and only a
\* successful status-200 fetch of q changes the cache entry of q.
C26_FetchFallsBackToCache ==
    [][call'.op = "fetch_news" =>
          LET query == call'.args[1]
              resp == call'.args[2]
          IN /\ ret'.status = "returned"
             /\ FetchFailed(ingestion_agent, resp) => ret'.value = LastFetched(query)
             /\ \A k \in Queries :
                   CacheEntry(ingestion_agent', k) # CacheEntry(ingestion_agent, k)
                   => /\ k = query
                      /\ ~FetchFailed(ingestion_agent, resp)]_vars

\* a fetch that failed after a successful one, served from the encrypted cache
C26_Witness ==
    /\ IsFetchCall
    /\ ingestion_agent.fernet
    /\ FetchFailed(ingestion_agent, call.args[2])
    /\ ret.status = "returned"
    /\ ret.value # <<>>
    /\ ret.value = LastFetched(call.args[1])

\* ------------------------------------------------------------------ C24
\* the text the claim compares: title and content, lower-cased and stripped
NormalText(article) == strip(lower(article.title \o <<" ">> \o article.content))

\* the articles processed earlier whose text is that of the article
EarlierSameText(article) ==
    {e \in log : /\ e.title # Absent
                 /\ article.title # Absent
                 /\ NormalText(e) = NormalText(article)}

\* C24: process on an article whose lower-cased, stripped title+content equals
\* that of an article the agent processed earlier returns is_duplicate = True,
\* method 'exact_match', similarity 1.0 and the earlier article as duplicate_of.
C24_RepeatIsExactMatch ==
    [][call'.op = "deduplication_agent.process" =>
          LET earlier == EarlierSameText(call'.args[1])
          IN earlier # {} =>
                /\ ret'.value.is_duplicate
                /\ ret'.value.method = "exact_match"
                /\ ret'.value.similarity = One
                /\ \E e \in earlier : ret'.value.duplicate_of = e.id]_vars

\* ------------------------------------------------------------------ C25
StoredIds(coll) == {coll[i].id : i \in DOMAIN coll}

\* the ids under which the articles of a batch at the given places are stored
IdsAt(articles, places) ==
    {IF articles[i].id = Absent THEN md5(articles[i].content) ELSE articles[i].id :
        i \in places}

\* C25: an article flagged as duplicate is never added to the vector store;
\* stored_count grows by exactly 1 on a successful store and stays on a skipped
\* duplicate and on a store error; batch_store reports stored + skipped + errors
\* equal to the number of (article, flag) pairs it processed.
C25_StorageCounts ==
    [][/\ call'.op = "storage_agent.process" =>
            /\ call'.args[2] => collection' = collection
            /\ ret'.value.stored
               => storage_agent'.stored_count = storage_agent.stored_count + 1
            /\ ~ret'.value.stored
               => storage_agent'.stored_count = storage_agent.stored_count
       /\ call'.op = "storage_agent.batch_store" =>
            LET articles == call'.args[1]
                duplicate_flags == call'.args[2]
                pairs == 1..Min(Len(articles), Len(duplicate_flags))
            IN /\ ret'.value.stored + ret'.value.skipped + ret'.value.errors
                  = Cardinality(pairs)
               /\ StoredIds(collection') \ StoredIds(collection)
                  \subseteq IdsAt(articles, {i \in pairs : ~duplicate_flags[i]})]_vars

\* ------------------------------------------------------------------ C23
\* the order the claim gives, ending at END
NodeOrder == <<"ingest", "translate", "deduplicate", "extract_entities",
               "analyze_impact", "store", "END">>

PlaceOf(node) == CHOOSE i \in DOMAIN NodeOrder : NodeOrder[i] = node

\* C23: a run of the workflow executes ingest, translate, deduplicate,
\* extract_entities, analyze_impact and store once each in this order and then
\* ends at END: every node that runs hands over to the next of the order, and
\* when store is about to run every article of the batch has its duplicate flag.
C23_NodesRunInOrderToEnd ==
    [][(state.node \in Range(NodeOrder) /\ state.node # "END") =>
          /\ state'.node = NodeOrder[PlaceOf(state.node) + 1]
          /\ state'.node = "store" =>
                /\ state'.processed_articles.kind = "list"
                /\ Len(state'.duplicate_flags) = Len(state'.processed_articles.items)
                /\ collection' = collection]_vars

\* ------------------------------------------------------------------ C29
\* C29: encrypting and decrypting is a round trip on entities: the entities
\* _impact_node hands to the impact agent and the entities of every article
\* process_news returns are the mapping the extraction agent produced for
\* the article in _entity_node.
C29_EntitiesRoundTrip ==
    /\ \A i \in DOMAIN log.handed : log.handed[i] = log.extracted[i]
    /\ (call.op = "process_news" \/ call.op = "_translate_node") /\ ret.status = "returned"
       => \A i \in DOMAIN ret.value.articles :
             /\ "entities" \in DOMAIN ret.value.articles[i]
             /\ ret.value.articles[i].entities = log.extracted[i]

====
